---- MODULE Spec2Model ----
(***************************************************************************)
(* VacationFinder (src/src/flybondi.js): round-trip options from a flat    *)
(* list of one-way flights, filtered by budget, ranked and summarised.     *)
(*                                                                         *)
(* A flight is a record [origin, destination, price, availability, date].  *)
(* A date string "YYYY-MM-DD" is the triple <<YYYY, MM, DD>>.  An option    *)
(* holds its two legs by reference: outbound and return are positions in   *)
(* this.flights, as the JS objects are references to the array's elements. *)
(***************************************************************************)
EXTENDS Integers, Sequences, FiniteSets

VARIABLES
    flights,          \* this.flights
    maxBudget,        \* this.maxBudget
    op,               \* the method whose call completed last
    budget,           \* the budget argument of that call
    destinations,     \* value returned by getUniqueDestinations
    options,          \* the caller's list: returned by findRoundTripOptions,
                      \* then passed to generateRecommendations
    passed,           \* that list as it was when generateRecommendations was entered
    recommendations,  \* value returned by generateRecommendations / findBestVacations
    summary           \* summary returned by findBestVacations

vars == <<flights, maxBudget, op, budget, destinations, options, passed,
          recommendations, summary>>

(***************************************************************************)
(* Bounds of the exploration.                                              *)
(***************************************************************************)
MaxFlights == 3
MaxLegs == 3
MaxOptions == 3

Null == <<>>
Undefined == "undefined"

Front(s) == SubSeq(s, 1, Len(s) - 1)
Last(s) == s[Len(s)]

SeqsUpTo(S, n) == UNION {[1..k -> S] : k \in 0..n}

(***************************************************************************)
(* new Date(dateStr): the time value of a date-only ISO string is UTC      *)
(* midnight of that day; an unparsable string gives Invalid Date, whose    *)
(* time value is NaN.  Time values are kept in hours since the epoch       *)
(* (the millisecond values do not fit the checker's integers).             *)
(***************************************************************************)
IsLeapYear(y) == (y % 4 = 0 /\ y % 100 # 0) \/ y % 400 = 0

DaysInMonth(y, m) ==
    IF m = 2 THEN (IF IsLeapYear(y) THEN 29 ELSE 28)
    ELSE IF m \in {4, 6, 9, 11} THEN 30 ELSE 31

DaysFromCivil(y, m, d) ==
    LET yy  == IF m <= 2 THEN y - 1 ELSE y
        era == yy \div 400
        yoe == yy - era * 400
        mp  == IF m > 2 THEN m - 3 ELSE m + 9
        doy == (153 * mp + 2) \div 5 + d - 1
        doe == yoe * 365 + yoe \div 4 - yoe \div 100 + doy
    IN  era * 146097 + doe - 719468

NewDate(dateStr) ==
    IF dateStr[2] \in 1..12 /\ dateStr[3] \in 1..DaysInMonth(dateStr[1], dateStr[2])
    THEN [nan |-> FALSE, time |-> 24 * DaysFromCivil(dateStr[1], dateStr[2], dateStr[3])]
    ELSE [nan |-> TRUE, time |-> 0]

\* a > b on two Date objects: false as soon as either time value is NaN
DateGreater(a, b) == ~a.nan /\ ~b.nan /\ a.time > b.time

\* Math.round(n / d) for d > 0: nearest integer, halves towards +Infinity
MathRoundDiv(n, d) == (2 * n + d) \div (2 * d)

\* faulty variant: Math.max where Math.min is meant
MathMax(a, b) == IF a > b THEN a ELSE b

MathMin(a, b) == IF a < b THEN a ELSE b

(***************************************************************************)
(* Array.prototype.sort is stable: insertion of each element, in input     *)
(* order, behind every element that does not compare greater than it.      *)
(***************************************************************************)
Count(s, v) == Cardinality({i \in DOMAIN s : s[i] = v})

\* faulty variant: the operands of the subtraction exchanged
CompareOriginsReversed(origins, a, b) == Count(origins, b) - Count(origins, a)

CompareOrigins(origins, a, b) == Count(origins, a) - Count(origins, b)

RECURSIVE InsertOrigin(_, _, _)
InsertOrigin(origins, sorted, x) ==
    IF sorted = <<>> THEN <<x>>
    ELSE IF CompareOrigins(origins, Last(sorted), x) > 0
         THEN Append(InsertOrigin(origins, Front(sorted), x), Last(sorted))
         ELSE Append(sorted, x)

RECURSIVE SortOrigins(_, _)
SortOrigins(origins, s) ==
    IF s = <<>> THEN <<>>
    ELSE InsertOrigin(origins, SortOrigins(origins, Front(s)), Last(s))

\* origins.sort(...).pop()
MainOrigin(fl) ==
    LET origins == [i \in DOMAIN fl |-> fl[i].origin]
        sorted  == SortOrigins(origins, origins)
    IN  IF sorted = <<>> THEN Undefined ELSE Last(sorted)

\* [...new Set(values)]: first occurrences, in order
RECURSIVE Unique(_)
Unique(s) ==
    IF s = <<>> THEN <<>>
    ELSE LET u == Unique(Front(s))
         IN  IF \E i \in DOMAIN u : u[i] = Last(s) THEN u ELSE Append(u, Last(s))

getUniqueDestinations(fl) ==
    LET mainOrigin == MainOrigin(fl)
        dests      == Unique([i \in DOMAIN fl |-> fl[i].destination])
    IN  SelectSeq(dests, LAMBDA dest : dest # mainOrigin)

(***************************************************************************)
(* findRoundTripOptions                                                    *)
(***************************************************************************)
Indices(fl) == [i \in DOMAIN fl |-> i]

\* f.origin !== dest && f.destination === dest
IsOutbound(f, dest) == f.origin # dest /\ f.destination = dest

\* f.origin === dest && f.destination !== dest
IsReturn(f, dest) == f.origin = dest /\ f.destination # dest

\* faulty variant: >= where > is meant
ReturnsAfterOrSameDay(outbound, ret) ==
    /\ ~NewDate(ret.date).nan
    /\ ~NewDate(outbound.date).nan
    /\ NewDate(ret.date).time >= NewDate(outbound.date).time

\* new Date(ret.date) > new Date(outbound.date)
ReturnsAfter(outbound, ret) == DateGreater(NewDate(ret.date), NewDate(outbound.date))

\* faulty variant: the operands of <= exchanged
WithinBudgetSwapped(totalPrice, b) == b <= totalPrice

\* totalPrice <= budget
WithinBudget(totalPrice, b) == totalPrice <= b

TotalAvailability(outbound, ret) == MathMin(outbound.availability, ret.availability)

StayDuration(outbound, ret) ==
    MathRoundDiv(NewDate(ret.date).time - NewDate(outbound.date).time, 24)

Option(fl, b, dest, o, r) ==
    LET totalPrice == fl[o].price + fl[r].price
    IN  [destination       |-> dest,
         outbound          |-> o,
         return            |-> r,
         totalPrice        |-> totalPrice,
         stayDuration      |-> StayDuration(fl[o], fl[r]),
         totalAvailability |-> TotalAvailability(fl[o], fl[r]),
         savings           |-> b - totalPrice]

\* returnFlights.forEach(ret => ...)
RECURSIVE ReturnLoop(_, _, _, _, _)
ReturnLoop(fl, b, dest, o, rets) ==
    IF rets = <<>> THEN <<>>
    ELSE LET r == Head(rets)
             pushed == IF ReturnsAfter(fl[o], fl[r])
                          /\ WithinBudget(fl[o].price + fl[r].price, b)
                       THEN <<Option(fl, b, dest, o, r)>>
                       ELSE <<>>
         IN  pushed \o ReturnLoop(fl, b, dest, o, Tail(rets))

\* outboundFlights.forEach(outbound => ...)
RECURSIVE OutboundLoop(_, _, _, _, _)
OutboundLoop(fl, b, dest, outs, rets) ==
    IF outs = <<>> THEN <<>>
    ELSE ReturnLoop(fl, b, dest, Head(outs), rets)
         \o OutboundLoop(fl, b, dest, Tail(outs), rets)

\* destinations.forEach(dest => ...)
RECURSIVE DestinationLoop(_, _, _)
DestinationLoop(fl, b, dests) ==
    IF dests = <<>> THEN <<>>
    ELSE LET dest == Head(dests)
             outboundFlights == SelectSeq(Indices(fl), LAMBDA i : IsOutbound(fl[i], dest))
             returnFlights   == SelectSeq(Indices(fl), LAMBDA i : IsReturn(fl[i], dest))
         IN  OutboundLoop(fl, b, dest, outboundFlights, returnFlights)
             \o DestinationLoop(fl, b, Tail(dests))

findRoundTripOptions(fl, b) == DestinationLoop(fl, b, getUniqueDestinations(fl))

(***************************************************************************)
(* generateRecommendations: options.sort(...) reorders the array it is     *)
(* called on and returns it; .map(...) then builds the returned array.     *)
(***************************************************************************)
\* faulty variant: the second key left out
CompareOptionsPriceOnly(a, b) == a.totalPrice - b.totalPrice

\* a.totalPrice - b.totalPrice || b.stayDuration - a.stayDuration
CompareOptions(a, b) ==
    IF a.totalPrice - b.totalPrice # 0
    THEN a.totalPrice - b.totalPrice
    ELSE b.stayDuration - a.stayDuration

RECURSIVE InsertOption(_, _)
InsertOption(sorted, x) ==
    IF sorted = <<>> THEN <<x>>
    ELSE IF CompareOptions(Last(sorted), x) > 0
         THEN Append(InsertOption(Front(sorted), x), Last(sorted))
         ELSE Append(sorted, x)

RECURSIVE SortOptions(_)
SortOptions(s) ==
    IF s = <<>> THEN <<>> ELSE InsertOption(SortOptions(Front(s)), Last(s))

\* getMonth() + 1 of a date-only string; NaN for Invalid Date (month 0 here).
\* The dates explored are mid-month, so that the local month is the UTC month
\* in every time zone.
MonthOf(dateStr) == IF NewDate(dateStr).nan THEN 0 ELSE dateStr[2]

getSeasonInfo(dateStr) ==
    LET month == MonthOf(dateStr)
    IN  IF month \in {12, 1, 2} THEN "Verano"
        ELSE IF month \in {3, 4, 5} THEN "Otono"
        ELSE IF month \in {6, 7, 8} THEN "Invierno"
        ELSE "Primavera"

Recommendation(opt, idx) ==
    IF idx = 0 THEN "Best Option"
    ELSE IF opt.stayDuration >= 10 THEN "Vacaciones largas"
    ELSE "Great Savings"

\* the array the caller passed, after the call
SortedInPlace(opts) == SortOptions(opts)

generateRecommendations(fl, opts) ==
    LET sorted == SortedInPlace(opts)
    IN  [idx \in DOMAIN sorted |->
            [destination       |-> sorted[idx].destination,
             outbound          |-> sorted[idx].outbound,
             return            |-> sorted[idx].return,
             totalPrice        |-> sorted[idx].totalPrice,
             stayDuration      |-> sorted[idx].stayDuration,
             totalAvailability |-> sorted[idx].totalAvailability,
             savings           |-> sorted[idx].savings,
             recommendation    |-> Recommendation(sorted[idx], idx - 1),
             seasonInfo        |-> getSeasonInfo(fl[sorted[idx].outbound].date)]]

(***************************************************************************)
(* findBestVacations                                                       *)
(***************************************************************************)
\* (a, b) => (a.totalPrice < b.totalPrice ? a : b)
Cheaper(a, b) == IF a.totalPrice < b.totalPrice THEN a ELSE b

\* (a, b) => (a.stayDuration > b.stayDuration ? a : b)
Longer(a, b) == IF a.stayDuration > b.stayDuration THEN a ELSE b

\* options.reduce(f) without an initial value, on a non-empty array
RECURSIVE ReduceCheaper(_)
ReduceCheaper(s) ==
    IF Len(s) = 1 THEN s[1] ELSE Cheaper(ReduceCheaper(Front(s)), Last(s))

RECURSIVE ReduceLonger(_)
ReduceLonger(s) ==
    IF Len(s) = 1 THEN s[1] ELSE Longer(ReduceLonger(Front(s)), Last(s))

\* opt.totalAvailability >= 2
IsFamilyOption(opt) == opt.totalAvailability >= 2

\* the fields of an option that the text of summary.cheapest shows
CheapestText(opt, b) == <<opt.destination, opt.totalPrice, b - opt.totalPrice>>

\* the fields of an option that the text of summary.longest shows
LongestText(opt) == <<opt.destination, opt.stayDuration>>

Summary(opts, b) ==
    [message       |-> [found |-> Len(opts) # 0, count |-> Len(opts), budget |-> b],
     cheapest      |-> IF Len(opts) # 0 THEN CheapestText(ReduceCheaper(opts), b) ELSE Null,
     longest       |-> IF Len(opts) # 0 THEN LongestText(ReduceLonger(opts)) ELSE Null,
     familyOptions |-> IF Len(opts) # 0
                       THEN Len(SelectSeq(opts, IsFamilyOption))
                       ELSE 0]

\* the summary is computed on options after generateRecommendations sorted it
findBestVacations(fl, b) ==
    LET found == findRoundTripOptions(fl, b)
        recs  == generateRecommendations(fl, found)
    IN  [summary |-> Summary(SortedInPlace(found), b), recommendations |-> recs]

NoSummary == [message |-> Null, cheapest |-> Null, longest |-> Null, familyOptions |-> 0]

(***************************************************************************)
(* Input sets                                                              *)
(***************************************************************************)
Locations == {"EZE", "BRC", "MDZ"}
Jan05 == <<2024, 1, 5>>
Jan15 == <<2024, 1, 15>>
Jan25 == <<2024, 1, 25>>
Unparsable == <<2024, 13, 1>>
Budgets == {-1, 0, 300, 600}

\* every route among three places on two days, a late leg back to EZE from
\* each other place, and one leg that goes nowhere, all at one fare
RouteFlights ==
    {f \in [origin : Locations, destination : Locations, price : {300},
            availability : {2}, date : {Jan05, Jan15}] : f.origin # f.destination}
    \cup {[origin |-> from, destination |-> "EZE", price |-> 300, availability |-> 2,
           date |-> Jan25] : from \in {"BRC", "MDZ"}}
    \cup {[origin |-> "BRC", destination |-> "BRC", price |-> 300, availability |-> 2,
           date |-> Jan05]}

\* both directions between two places on two days, with free and paid fares
\* and one or two seats, a leg each way whose date is unparsable, and one
\* leg that goes nowhere
FareFlights ==
    {f \in [origin : {"EZE", "BRC"}, destination : {"EZE", "BRC"}, price : {0, 300},
            availability : {1, 2}, date : {Jan05, Jan15}] : f.origin # f.destination}
    \cup {[origin |-> "EZE", destination |-> "BRC", price |-> 300, availability |-> 2,
           date |-> Unparsable],
          [origin |-> "BRC", destination |-> "EZE", price |-> 300, availability |-> 2,
           date |-> Unparsable]}
    \cup {[origin |-> "BRC", destination |-> "BRC", price |-> 0, availability |-> 2,
           date |-> Jan05]}

\* the two legs of one round trip
FixedFlights ==
    << [origin |-> "EZE", destination |-> "BRC", price |-> 300, availability |-> 2,
        date |-> Jan05],
       [origin |-> "BRC", destination |-> "EZE", price |-> 250, availability |-> 2,
        date |-> Jan15] >>

\* options as a caller of generateRecommendations may hold them
HeldOptions ==
    {[destination |-> d, outbound |-> 1, return |-> 2, totalPrice |-> p,
      stayDuration |-> n, totalAvailability |-> 2, savings |-> 800 - p] :
        d \in {"BRC", "MDZ"}, p \in {550, 600}, n \in {5, 10}}

(***************************************************************************)
(* State machine                                                           *)
(***************************************************************************)
Constructed(flightData) ==
    /\ flights = flightData
    /\ maxBudget = 800
    /\ op = "idle"
    /\ budget = 800
    /\ destinations = <<>>
    /\ options = <<>>
    /\ passed = <<>>
    /\ recommendations = <<>>
    /\ summary = NoSummary

Init == \E flightData \in SeqsUpTo(RouteFlights, MaxFlights) : Constructed(flightData)

InitFares == \E flightData \in SeqsUpTo(FareFlights, MaxLegs) : Constructed(flightData)

\* a caller holding a list of options of its own
InitRank ==
    \E held \in SeqsUpTo(HeldOptions, MaxOptions) :
        /\ flights = FixedFlights
        /\ maxBudget = 800
        /\ op = "held"
        /\ budget = 800
        /\ destinations = <<>>
        /\ options = held
        /\ passed = <<>>
        /\ recommendations = <<>>
        /\ summary = NoSummary

CallGetUniqueDestinations ==
    /\ op = "idle"
    /\ op' = "getUniqueDestinations"
    /\ destinations' = getUniqueDestinations(flights)
    /\ UNCHANGED <<flights, maxBudget, budget, options, passed, recommendations, summary>>

CallFindRoundTripOptions ==
    /\ op = "idle"
    /\ \E b \in Budgets :
        /\ op' = "findRoundTripOptions"
        /\ budget' = b
        /\ options' = findRoundTripOptions(flights, b)
        /\ UNCHANGED <<flights, maxBudget, destinations, passed, recommendations, summary>>

\* the caller passes the list it holds
CallGenerateRecommendations ==
    /\ op \in {"findRoundTripOptions", "generateRecommendations", "held"}
    /\ op' = "generateRecommendations"
    /\ passed' = options
    /\ options' = SortedInPlace(options)
    /\ recommendations' = generateRecommendations(flights, options)
    /\ UNCHANGED <<flights, maxBudget, budget, destinations, summary>>

FindBestVacationsWith(b) ==
    /\ op = "idle"
    /\ op' = "findBestVacations"
    /\ budget' = b
    /\ recommendations' = findBestVacations(flights, b).recommendations
    /\ summary' = findBestVacations(flights, b).summary
    /\ UNCHANGED <<flights, maxBudget, destinations, options, passed>>

CallFindBestVacations == \E b \in Budgets : FindBestVacationsWith(b)

\* findBestVacations(): budget = this.maxBudget
CallFindBestVacationsDefault == FindBestVacationsWith(maxBudget)

\* The finder keeps this.flights and this.maxBudget only: the caller drops the
\* values a call returned before it calls again.
Discard ==
    /\ op \notin {"idle", "held"}
    /\ op' = "idle"
    /\ budget' = maxBudget
    /\ destinations' = <<>>
    /\ options' = <<>>
    /\ passed' = <<>>
    /\ recommendations' = <<>>
    /\ summary' = NoSummary
    /\ UNCHANGED <<flights, maxBudget>>

Next ==
    \/ CallGetUniqueDestinations
    \/ CallFindRoundTripOptions
    \/ CallGenerateRecommendations
    \/ CallFindBestVacations
    \/ CallFindBestVacationsDefault
    \/ Discard

Spec == Init /\ [][Next]_vars

SpecFares == InitFares /\ [][Next]_vars

NextRank == CallGenerateRecommendations

SpecRank == InitRank /\ [][NextRank]_vars

(***************************************************************************)
(* Properties                                                              *)
(***************************************************************************)
Range(s) == {s[i] : i \in DOMAIN s}

IsPermutation(p, n) == \A i, j \in 1..n : i # j => p[i] # p[j]

\* a date string that names a day of the calendar
IsCalendarDate(d) == d[2] \in 1..12 /\ d[3] \in 1..31

\* date a is a later day than date b
StrictlyLater(a, b) ==
    /\ IsCalendarDate(a)
    /\ IsCalendarDate(b)
    /\ \/ a[1] > b[1]
       \/ a[1] = b[1] /\ a[2] > b[2]
       \/ a[1] = b[1] /\ a[2] = b[2] /\ a[3] > b[3]

\* outbound o and return r pair up for destination D
Pairing(D, o, r) ==
    /\ flights[o].destination = D
    /\ flights[o].origin # D
    /\ flights[r].origin = D
    /\ flights[r].destination # D

\* the triples (D, outbound, ret) that the matching rule admits under budget b
Admitted(b) ==
    {t \in Range(getUniqueDestinations(flights)) \X (DOMAIN flights) \X (DOMAIN flights) :
        /\ Pairing(t[1], t[2], t[3])
        /\ StrictlyLater(flights[t[3]].date, flights[t[2]].date)
        /\ flights[t[2]].price + flights[t[3]].price <= b}

Legs(opts) == [k \in DOMAIN opts |-> <<opts[k].destination, opts[k].outbound, opts[k].return>>]

Matched == op \in {"findRoundTripOptions", "findBestVacations"}

MatchedOptions == IF op = "findRoundTripOptions" THEN options ELSE recommendations

\* C2 as stated: for every budget B <= 0 and non-negative prices, no option is
\* returned and the summary reports no options.
C2_NoMatchAtOrBelowZero ==
    (Matched /\ budget <= 0) =>
        /\ MatchedOptions = <<>>
        /\ op = "findBestVacations" => ~summary.message.found

\* C2 amended: for every budget B < 0 and non-negative prices, no option is
\* returned and the summary reports no options; under budget 0 every option
\* returned has two free legs.
C2_NoMatchBelowZero ==
    /\ (Matched /\ budget < 0) =>
        /\ MatchedOptions = <<>>
        /\ op = "findBestVacations" =>
            (~summary.message.found /\ summary.cheapest = Null /\ summary.longest = Null)
    /\ (Matched /\ budget = 0) =>
        \A k \in DOMAIN MatchedOptions :
            /\ flights[MatchedOptions[k].outbound].price = 0
            /\ flights[MatchedOptions[k].return].price = 0

\* C2 witness: a negative budget left out a pairing whose dates are in order.
C2_Witness ==
    /\ op = "findRoundTripOptions"
    /\ budget < 0
    /\ options = <<>>
    /\ \E D \in Range(getUniqueDestinations(flights)), o, r \in DOMAIN flights :
        /\ Pairing(D, o, r)
        /\ StrictlyLater(flights[r].date, flights[o].date)

\* C3 as stated: when a flight that takes part in an outbound/return pairing
\* has an unparsable date, findRoundTripOptions does not complete normally
\* (it fails with DateParseError).
C3_UnparsableDateFails ==
    ~ /\ op = "findRoundTripOptions"
      /\ \E D \in Range(getUniqueDestinations(flights)), o, r \in DOMAIN flights :
            /\ Pairing(D, o, r)
            /\ ~IsCalendarDate(flights[o].date) \/ ~IsCalendarDate(flights[r].date)

\* C4 as stated: summary.cheapest describes the first option of minimum
\* totalPrice in ranked order, the first element of recommendations; it is
\* null exactly when there are no options.
C4_CheapestIsFirstRanked ==
    op = "findBestVacations" =>
        /\ summary.cheapest = Null <=> recommendations = <<>>
        /\ recommendations # <<>> =>
            summary.cheapest = CheapestText(recommendations[1], budget)

\* C5 as stated: summary.longest describes an option of maximum stayDuration,
\* the first such in ranked order; it is null exactly when there are no options.
C5_LongestIsFirstRanked ==
    op = "findBestVacations" =>
        /\ summary.longest = Null <=> recommendations = <<>>
        /\ recommendations # <<>> =>
            \E k \in DOMAIN recommendations :
                /\ \A j \in DOMAIN recommendations :
                    recommendations[j].stayDuration <= recommendations[k].stayDuration
                /\ \A j \in 1..(k - 1) :
                    recommendations[j].stayDuration < recommendations[k].stayDuration
                /\ summary.longest = LongestText(recommendations[k])

\* the option a recommendation was built from
Core(rec) ==
    [destination       |-> rec.destination,
     outbound          |-> rec.outbound,
     return            |-> rec.return,
     totalPrice        |-> rec.totalPrice,
     stayDuration      |-> rec.stayDuration,
     totalAvailability |-> rec.totalAvailability,
     savings           |-> rec.savings]

SameKeys(a, b) == a.totalPrice = b.totalPrice /\ a.stayDuration = b.stayDuration

\* C6: the list returned by generateRecommendations is a permutation of the
\* list passed, sorted by totalPrice ascending and, at equal price, by
\* stayDuration descending; options equal in both keys keep their input order.
C6_SortedStablePermutation ==
    op = "generateRecommendations" =>
        /\ Len(recommendations) = Len(passed)
        /\ \A k \in 1..(Len(recommendations) - 1) :
            /\ recommendations[k].totalPrice <= recommendations[k + 1].totalPrice
            /\ recommendations[k].totalPrice = recommendations[k + 1].totalPrice
                 => recommendations[k].stayDuration >= recommendations[k + 1].stayDuration
        /\ \E p \in [DOMAIN passed -> DOMAIN passed] :
            /\ IsPermutation(p, Len(passed))
            /\ \A k \in DOMAIN passed : Core(recommendations[k]) = passed[p[k]]
            /\ \A j, k \in DOMAIN passed :
                (j < k /\ SameKeys(passed[p[j]], passed[p[k]])) => p[j] < p[k]

\* C6 witness: three options or more were passed out of order, two of them
\* different but equal in both keys.
C6_Witness ==
    /\ op = "generateRecommendations"
    /\ Len(passed) >= 3
    /\ \E k \in 1..(Len(passed) - 1) : CompareOptions(passed[k], passed[k + 1]) > 0
    /\ \E j, k \in DOMAIN passed :
        j < k /\ SameKeys(passed[j], passed[k]) /\ passed[j] # passed[k]

\* the origins whose number of occurrences among the records is maximal
MostFrequentOrigins ==
    {flights[i].origin : i \in {i \in DOMAIN flights :
        \A j \in DOMAIN flights :
            Count([k \in DOMAIN flights |-> flights[k].origin], flights[j].origin)
              <= Count([k \in DOMAIN flights |-> flights[k].origin], flights[i].origin)}}

DestinationValues == {flights[i].destination : i \in DOMAIN flights}

\* C7: getUniqueDestinations returns each distinct destination value exactly
\* once, except the main origin, an origin of maximal number of occurrences;
\* the main origin is not in the output; no flights give an empty output.
C7_DestinationsButMainOrigin ==
    op = "getUniqueDestinations" =>
        /\ Len(destinations) = Cardinality(Range(destinations))
        /\ flights = <<>> => destinations = <<>>
        /\ flights # <<>> =>
            \E m \in MostFrequentOrigins :
                Range(destinations) = DestinationValues \ {m}

\* C7 witness: the main origin is also a destination of some record and was
\* left out, and a destination that two records share was returned once.
C7_Witness ==
    /\ op = "getUniqueDestinations"
    /\ Cardinality(MostFrequentOrigins) = 1
    /\ MostFrequentOrigins \subseteq DestinationValues
    /\ Range(destinations) # {}
    /\ \E i, j \in DOMAIN flights :
        i # j /\ flights[i].destination = flights[j].destination
              /\ flights[i].destination \in Range(destinations)

\* C8 as stated: generateRecommendations leaves the list passed to it as it
\* was, and no call changes the flight list of the finder.
C8_NothingIsMutated ==
    [][/\ op' = "generateRecommendations" => options' = options
       /\ flights' = flights]_vars

\* C9 as stated: every option returned by findRoundTripOptions leaves from
\* the resolved main origin and comes back to it.
C9_RoundTripFromMainOrigin ==
    op = "findRoundTripOptions" =>
        \A k \in DOMAIN options :
            /\ flights[options[k].outbound].origin = MainOrigin(flights)
            /\ flights[options[k].return].destination = MainOrigin(flights)

\* both legs of the admitted triple have two seats or more
BothLegsForTwo(t) ==
    flights[t[2]].availability >= 2 /\ flights[t[3]].availability >= 2

\* C10: every option has totalAvailability = min(outbound.availability,
\* return.availability), and summary.familyOptions is the number of matched
\* options whose two legs both have availability >= 2 (0 without options).
C10_FamilyOptionsCount ==
    /\ Matched =>
        \A k \in DOMAIN MatchedOptions :
            LET a  == flights[MatchedOptions[k].outbound].availability
                b  == flights[MatchedOptions[k].return].availability
                ta == MatchedOptions[k].totalAvailability
            IN  ta \in {a, b} /\ ta <= a /\ ta <= b
    /\ op = "findBestVacations" =>
        /\ summary.familyOptions
             = Cardinality({t \in Admitted(budget) : BothLegsForTwo(t)})
        /\ recommendations = <<>> => summary.familyOptions = 0

\* C10 witness: an option with two seats on one leg and one on the other was
\* matched and not counted.
C10_Witness ==
    /\ op = "findBestVacations"
    /\ recommendations # <<>>
    /\ summary.familyOptions = 0
    /\ \E k \in DOMAIN recommendations :
        /\ recommendations[k].totalAvailability = 1
        /\ \/ flights[recommendations[k].outbound].availability = 2
           \/ flights[recommendations[k].return].availability = 2

====
